---------------------------- MODULE Spec2Model ----------------------------
(***************************************************************************)
(* Move-legality engine of the chess program: the 8x8 board of optional    *)
(* pieces, Square addressing, is_valid_move and make_move                  *)
(* (src/src/engine/chess_move.rs, src/src/engine/board.rs).                *)
(***************************************************************************)
EXTENDS Integers, Sequences, FiniteSets, TLC

(***************************************************************************)
(* Bounds of the model.                                                    *)
(***************************************************************************)
\* Iterations of a ray-walk loop that are followed before the loop is
\* reported as not terminating.  A loop whose state does not change between
\* two iterations repeats the same iteration for ever.
WalkFuel == 8

(***************************************************************************)
(* Pieces (src/src/piece.rs).                                              *)
(***************************************************************************)
PieceColor == {"White", "Black"}
PieceType == {"King", "Queen", "Rook", "Knight", "Bishop", "Pawn"}

\* Piece::new
Piece(t, c) == [piece_type |-> t, color |-> c]

\* Option<Piece>::None
None == [piece_type |-> "None", color |-> "None"]

AllPieces == {Piece(t, c) : t \in PieceType, c \in PieceColor}

(***************************************************************************)
(* Squares (struct Square(u8), range 0..63).                               *)
(***************************************************************************)
Rows == 0 .. 7
Squares == 0 .. 63

\* Option<Square>::None, the result of an offset that leaves the grid
NoSquare == 64

\* Square::row
row(s) == s \div 8

\* Square::col
col(s) == s % 8

\* Square::offset
offset(s, d_row, d_col) ==
  LET r == row(s) + d_row
      c == col(s) + d_col
  IN  IF r >= 0 /\ r < 8 /\ c >= 0 /\ c < 8 THEN r * 8 + c ELSE NoSquare

\* i32::signum
signum(x) == IF x > 0 THEN 1 ELSE IF x < 0 THEN -1 ELSE 0

\* i32::abs
abs(x) == IF x < 0 THEN -x ELSE x

(***************************************************************************)
(* Boards (type BoardGame = [[Option<Piece>; 8]; 8]).                      *)
(***************************************************************************)
\* BoardFactory::create(BoardPosition::Empty)
EmptyBoard == [r \in Rows |-> [c \in Rows |-> None]]

\* the cell of a square, board[s.row()][s.col()]
At(b, s) == b[row(s)][col(s)]

\* a cell write, board[s.row()][s.col()] = p
Put(b, s, p) == [b EXCEPT ![row(s)][col(s)] = p]

is_some(cell) == cell # None

(***************************************************************************)
(* Outcomes of a call.  "Ok" and the MoveError kinds are the values the    *)
(* function returns; "Panic" is a run-time fault (arithmetic overflow in a *)
(* build with overflow checks, or an array index outside 0..7) and "Hang"  *)
(* is a loop that never exits.                                             *)
(***************************************************************************)
MoveError == {"OutOfBounds", "NoPieceAtSource", "SamePosition", "CaptureOwnPiece",
              "InvalidPawnCapture", "InvalidPawnMove", "InvalidRookMove",
              "InvalidKnightMove", "InvalidBishopMove", "InvalidKingMove",
              "InvalidQueenMove", "PieceBlocking"}
Faults == {"Panic", "Hang"}

\* the result of a branch that ran no loop
Ret(r) == [res |-> r, steps |-> 0]

\* usize subtraction a - b: it overflows when a < b.  With overflow checks
\* (oc, the debug profile) that is a panic; without them the value wraps to
\* 2^64 + a - b, which is written here by its residue a - b: like the wrapped
\* value it equals no coordinate in 0..7 and is no valid index.
sub_overflows(a, b, oc) == oc /\ a < b

\* board[r][c] with r a usize: the index is checked against the array length
index_panics(r) == r < 0 \/ r > 7

(***************************************************************************)
(* The Pawn branch of is_valid_move.                                       *)
(***************************************************************************)
\* the column test of a capture, to.col() == from.col() - 1 || to.col() == from.col() + 1
pawn_capture_cols(from, to, oc) ==
  IF sub_overflows(col(from), 1, oc) THEN "Panic"
  ELSE IF col(to) = col(from) - 1 \/ col(to) = col(from) + 1 THEN "Ok"
  ELSE "InvalidPawnCapture"

\* Capture moves
pawn_capture(piece, from, to, oc) ==
  IF piece.color = "White"
  THEN IF sub_overflows(row(from), 1, oc) THEN "Panic"
       ELSE IF row(to) = row(from) - 1 THEN pawn_capture_cols(from, to, oc)
       ELSE "InvalidPawnCapture"
  ELSE IF row(to) = row(from) + 1 THEN pawn_capture_cols(from, to, oc)
       ELSE "InvalidPawnCapture"

\* Normal moves, White, with a double move that looks at the final cell only
pawn_advance_white_unblocked(board, from, to, oc) ==
  IF sub_overflows(row(from), 2, oc) \/ index_panics(row(from) - 1) THEN "Panic"
  ELSE LET valid_single_move == row(to) = row(from) - 1 /\ col(to) = col(from)
           valid_double_move ==
             /\ row(to) = row(from) - 2
             /\ col(to) = col(from)
             /\ row(from) = 6
       IN  IF ~valid_single_move /\ ~valid_double_move
           THEN "InvalidPawnMove" ELSE "Ok"

\* Normal moves, White
pawn_advance_white(board, from, to, oc) ==
  IF sub_overflows(row(from), 1, oc) THEN "Panic"
  ELSE LET valid_single_move == row(to) = row(from) - 1 /\ col(to) = col(from)
       IN  IF index_panics(row(from) - 1) THEN "Panic"
           ELSE LET empty_blocking_cell == ~is_some(board[row(from) - 1][col(from)])
                IN  IF sub_overflows(row(from), 2, oc) THEN "Panic"
                    ELSE LET valid_double_move ==
                               /\ row(to) = row(from) - 2
                               /\ col(to) = col(from)
                               /\ row(from) = 6
                               /\ empty_blocking_cell
                         IN  IF ~valid_single_move /\ ~valid_double_move
                             THEN "InvalidPawnMove" ELSE "Ok"

\* Normal moves, Black
pawn_advance_black(board, from, to) ==
  LET valid_single_move == row(to) = row(from) + 1 /\ col(to) = col(from)
  IN  IF index_panics(row(from) + 1) THEN "Panic"
      ELSE LET empty_blocking_cell == ~is_some(board[row(from) + 1][col(from)])
               valid_double_move ==
                 /\ row(to) = row(from) + 2
                 /\ col(to) = col(from)
                 /\ row(from) = 1
                 /\ empty_blocking_cell
           IN  IF ~valid_single_move /\ ~valid_double_move
               THEN "InvalidPawnMove" ELSE "Ok"

\* PieceType::Pawn
pawn_rule(board, piece, from, to, is_capture, oc) ==
  IF is_capture THEN Ret(pawn_capture(piece, from, to, oc))
  ELSE IF piece.color = "White" THEN Ret(pawn_advance_white(board, from, to, oc))
  ELSE Ret(pawn_advance_black(board, from, to))

(***************************************************************************)
(* The ray walk of the sliding pieces,                                     *)
(*   while let Some(next) = current.offset(dy, dx) { ... }                 *)
(* n is the number of iterations already run; advance tells whether the    *)
(* loop body ends with current = next.                                     *)
(***************************************************************************)
RECURSIVE ray_walk(_, _, _, _, _, _, _)
ray_walk(board, current, to, dy, dx, advance, n) ==
  IF n >= WalkFuel THEN [res |-> "Hang", steps |-> n]
  ELSE LET next == offset(current, dy, dx)
       IN  IF next = NoSquare THEN [res |-> "Ok", steps |-> n]
           ELSE IF next = to THEN [res |-> "Ok", steps |-> n + 1]
           ELSE IF is_some(At(board, next)) THEN [res |-> "PieceBlocking", steps |-> n + 1]
           ELSE ray_walk(board, IF advance THEN next ELSE current, to, dy, dx,
                         advance, n + 1)

\* PieceType::Rook
rook_rule(board, from, to) ==
  LET dx == signum(col(to) - col(from))
      dy == signum(row(to) - row(from))
  IN  IF dx # 0 /\ dy # 0 THEN Ret("InvalidRookMove")
      ELSE ray_walk(board, from, to, dy, dx, FALSE, 0)

\* the Knight branch with the two shapes joined by && instead of ||
knight_rule_and(from, to) ==
  LET row_diff == abs(row(to) - row(from))
      col_diff == abs(col(to) - col(from))
  IN  IF ~((row_diff = 2 /\ col_diff = 1) /\ (row_diff = 1 /\ col_diff = 2))
      THEN Ret("InvalidKnightMove") ELSE Ret("Ok")

\* PieceType::Knight
knight_rule(from, to) ==
  LET row_diff == abs(row(to) - row(from))
      col_diff == abs(col(to) - col(from))
  IN  IF ~((row_diff = 2 /\ col_diff = 1) \/ (row_diff = 1 /\ col_diff = 2))
      THEN Ret("InvalidKnightMove") ELSE Ret("Ok")

\* PieceType::Bishop
bishop_rule(board, from, to) ==
  LET row_diff == abs(row(to) - row(from))
      col_diff == abs(col(to) - col(from))
  IN  IF row_diff # col_diff THEN Ret("InvalidBishopMove")
      ELSE LET dx == signum(col(to) - col(from))
               dy == signum(row(to) - row(from))
           IN  ray_walk(board, from, to, dy, dx, FALSE, 0)

\* the King branch that refuses a move only when both deltas exceed 1
king_rule_and(from, to) ==
  LET row_diff == abs(row(to) - row(from))
      col_diff == abs(col(to) - col(from))
  IN  IF row_diff > 1 /\ col_diff > 1 THEN Ret("InvalidKingMove") ELSE Ret("Ok")

\* PieceType::King
king_rule(from, to) ==
  LET row_diff == abs(row(to) - row(from))
      col_diff == abs(col(to) - col(from))
  IN  IF row_diff > 1 \/ col_diff > 1 THEN Ret("InvalidKingMove") ELSE Ret("Ok")

\* the Queen branch with a loop body that, like the Rook's, never moves current
queen_rule_stuck(board, from, to) ==
  LET dx == signum(col(to) - col(from))
      dy == signum(row(to) - row(from))
      row_diff == abs(row(to) - row(from))
      col_diff == abs(col(to) - col(from))
      is_straight == (dx = 0 /\ dy # 0) \/ (dx # 0 /\ dy = 0)
      is_diagonal == row_diff = col_diff
  IN  IF ~is_straight /\ ~is_diagonal THEN Ret("InvalidQueenMove")
      ELSE ray_walk(board, from, to, dy, dx, FALSE, 0)

\* PieceType::Queen
queen_rule(board, from, to) ==
  LET dx == signum(col(to) - col(from))
      dy == signum(row(to) - row(from))
      row_diff == abs(row(to) - row(from))
      col_diff == abs(col(to) - col(from))
      is_straight == (dx = 0 /\ dy # 0) \/ (dx # 0 /\ dy = 0)
      is_diagonal == row_diff = col_diff
  IN  IF ~is_straight /\ ~is_diagonal THEN Ret("InvalidQueenMove")
      ELSE ray_walk(board, from, to, dy, dx, TRUE, 0)

\* match piece.piece_type { ... }
piece_rule(board, piece, from, to, is_capture, oc) ==
  CASE piece.piece_type = "Pawn" -> pawn_rule(board, piece, from, to, is_capture, oc)
    [] piece.piece_type = "Rook" -> rook_rule(board, from, to)
    [] piece.piece_type = "Knight" -> knight_rule(from, to)
    [] piece.piece_type = "Bishop" -> bishop_rule(board, from, to)
    [] piece.piece_type = "King" -> king_rule(from, to)
    [] piece.piece_type = "Queen" -> queen_rule(board, from, to)

\* is_valid_move without the test of the destination piece's colour
is_valid_move_any_capture(board, from, to, oc) ==
  LET piece == At(board, from)
      destination_piece == At(board, to)
  IN  IF ~is_some(piece) THEN Ret("NoPieceAtSource")
      ELSE IF to = from THEN Ret("SamePosition")
      ELSE piece_rule(board, piece, from, to, is_some(destination_piece), oc)

\* is_valid_move with the movement check ahead of the source check
is_valid_move_reordered(board, from, to, oc) ==
  LET piece == At(board, from)
      destination_piece == At(board, to)
  IN  IF to = from THEN Ret("SamePosition")
      ELSE IF ~is_some(piece) THEN Ret("NoPieceAtSource")
      ELSE IF is_some(destination_piece) /\ piece.color = destination_piece.color
           THEN Ret("CaptureOwnPiece")
      ELSE piece_rule(board, piece, from, to, is_some(destination_piece), oc)

\* is_valid_move: the outcome and the number of ray-walk iterations.  oc is
\* the build's overflow-checks setting.
is_valid_move(board, from, to, oc) ==
  LET piece == At(board, from)
      destination_piece == At(board, to)
  IN  IF ~is_some(piece) THEN Ret("NoPieceAtSource")
      ELSE IF to = from THEN Ret("SamePosition")
      ELSE IF is_some(destination_piece) /\ piece.color = destination_piece.color
           THEN Ret("CaptureOwnPiece")
      ELSE piece_rule(board, piece, from, to, is_some(destination_piece), oc)

(***************************************************************************)
(* The legacy copy of the legality check (src/src/chess_move.rs), on       *)
(* struct Position { row, column }.                                        *)
(***************************************************************************)
\* Position { row, column } of a cell
Position(s) == [row |-> row(s), column |-> col(s)]

\* within_bounds
within_bounds(position) == position.row <= 7 /\ position.column <= 7

\* Capture moves (legacy)
legacy_pawn_capture(piece, from, to, oc) ==
  LET cols == IF sub_overflows(from.column, 1, oc) THEN "Panic"
              ELSE IF to.column = from.column - 1 \/ to.column = from.column + 1
                   THEN "Ok"
              ELSE "InvalidPawnCapture"
  IN  IF piece.color = "White"
      THEN IF sub_overflows(from.row, 1, oc) THEN "Panic"
           ELSE IF to.row = from.row - 1 THEN cols
           ELSE "InvalidPawnCapture"
      ELSE IF to.row = from.row + 1 THEN cols
           ELSE "InvalidPawnCapture"

\* Normal moves (legacy)
legacy_pawn_advance(board, piece, from, to, oc) ==
  IF piece.color = "White"
  THEN IF sub_overflows(from.row, 1, oc) \/ index_panics(from.row - 1) THEN "Panic"
       ELSE LET valid_single_move == to.row = from.row - 1 /\ to.column = from.column
                empty_blocking_cell == ~is_some(board[from.row - 1][from.column])
            IN  IF sub_overflows(from.row, 2, oc) THEN "Panic"
                ELSE LET valid_double_move ==
                           /\ to.row = from.row - 2
                           /\ to.column = from.column
                           /\ from.row = 6
                           /\ empty_blocking_cell
                     IN  IF ~valid_single_move /\ ~valid_double_move
                         THEN "InvalidPawnMove" ELSE "Ok"
  ELSE IF index_panics(from.row + 1) THEN "Panic"
       ELSE LET valid_single_move == to.row = from.row + 1 /\ to.column = from.column
                empty_blocking_cell == ~is_some(board[from.row + 1][from.column])
                valid_double_move ==
                  /\ to.row = from.row + 2
                  /\ to.column = from.column
                  /\ from.row = 1
                  /\ empty_blocking_cell
            IN  IF ~valid_single_move /\ ~valid_double_move
                THEN "InvalidPawnMove" ELSE "Ok"

\* the legacy walk, while current != move_.to { step; test board[current] }:
\* the cell tested last is the destination itself
RECURSIVE legacy_walk(_, _, _, _, _, _)
legacy_walk(board, current, to, dy, dx, n) ==
  IF current = to THEN [res |-> "Ok", steps |-> n]
  ELSE IF n >= WalkFuel THEN [res |-> "Hang", steps |-> n]
  ELSE LET next == [row |-> current.row + dy, column |-> current.column + dx]
       IN  IF index_panics(next.row) \/ index_panics(next.column)
           THEN [res |-> "Panic", steps |-> n + 1]
           ELSE IF is_some(board[next.row][next.column])
           THEN [res |-> "PieceBlocking", steps |-> n + 1]
           ELSE legacy_walk(board, next, to, dy, dx, n + 1)

\* match piece.piece_type { ... } (legacy)
legacy_piece_rule(board, piece, from, to, is_capture, oc) ==
  LET dx == signum(to.column - from.column)
      dy == signum(to.row - from.row)
      row_diff == abs(to.row - from.row)
      col_diff == abs(to.column - from.column)
  IN  CASE piece.piece_type = "Pawn" ->
             IF is_capture THEN Ret(legacy_pawn_capture(piece, from, to, oc))
             ELSE Ret(legacy_pawn_advance(board, piece, from, to, oc))
        [] piece.piece_type = "Rook" ->
             IF dx # 0 /\ dy # 0 THEN Ret("InvalidRookMove")
             ELSE legacy_walk(board, from, to, dy, dx, 0)
        [] piece.piece_type = "Knight" ->
             IF ~((row_diff = 2 /\ col_diff = 1) \/ (row_diff = 1 /\ col_diff = 2))
             THEN Ret("InvalidKnightMove") ELSE Ret("Ok")
        [] piece.piece_type = "Bishop" ->
             IF row_diff # col_diff THEN Ret("InvalidBishopMove")
             ELSE legacy_walk(board, from, to, dy, dx, 0)
        [] piece.piece_type = "King" ->
             IF row_diff > 1 \/ col_diff > 1 THEN Ret("InvalidKingMove") ELSE Ret("Ok")
        [] piece.piece_type = "Queen" ->
             IF ~((dx = 0 /\ dy # 0) \/ (dx # 0 /\ dy = 0)) /\ ~(row_diff = col_diff)
             THEN Ret("InvalidQueenMove")
             ELSE legacy_walk(board, from, to, dy, dx, 0)

\* is_valid_move (legacy)
legacy_is_valid_move(board, from, to, oc) ==
  IF ~within_bounds(from) \/ ~within_bounds(to) THEN Ret("OutOfBounds")
  ELSE LET piece == board[from.row][from.column]
           destination_piece == board[to.row][to.column]
       IN  IF ~is_some(piece) THEN Ret("NoPieceAtSource")
           ELSE IF to = from THEN Ret("SamePosition")
           ELSE IF is_some(destination_piece) /\ piece.color = destination_piece.color
                THEN Ret("CaptureOwnPiece")
           ELSE legacy_piece_rule(board, piece, from, to, is_some(destination_piece), oc)

\* the Ok arm without the take(): the piece is copied, the source cell keeps it
move_piece_copy(board, from, to) == Put(board, to, At(board, from))

\* make_move, the Ok arm: take the piece of the source cell, store it in
\* the destination cell
move_piece(board, from, to) == Put(Put(board, from, None), to, At(board, from))

\* make_move that moves the piece whatever is_valid_move answered
make_move_unchecked(board, from, to, res) == move_piece(board, from, to)

\* make_move: the board it leaves, given the outcome of is_valid_move
make_move(board, from, to, res) ==
  IF res = "Ok" THEN move_piece(board, from, to) ELSE board

(***************************************************************************)
(* The boards a run starts from: the empty board, and the pieces of one    *)
(* material placed on distinct squares.  A lone piece stands anywhere; two *)
(* pieces stand on the squares of Arena, and a caller of a board with two  *)
(* pieces picks its destination in Arena, so that these boards are closed  *)
(* under make_move and a run is a sequence of calls of any length.         *)
(***************************************************************************)
\* column 0, column 1 and the diagonal from (7,0) to (0,7)
Arena == {s \in Squares : col(s) \in {0, 1} \/ row(s) + col(s) = 7}

Others == {Piece("Pawn", "White"), Piece("Pawn", "Black")}

Movers == {Piece(t, "White") : t \in PieceType \ {"Pawn"}} \cup Others

Boards1 == {Put(EmptyBoard, s, p) : s \in Squares, p \in AllPieces}

Boards2 == {Put(Put(EmptyBoard, s[1], p), s[2], q) :
              s \in {x \in Arena \X Arena : x[1] # x[2]}, p \in Movers, q \in Others}

InitBoards == {EmptyBoard} \cup Boards1 \cup Boards2

Occupied(b) == {s \in Squares : is_some(At(b, s))}

\* the squares a caller picks a source from: the occupied ones and, on a
\* board of at most one piece, one fixed corner, occupied or not
ProbeSquares == {0}
Sources(b) == IF Cardinality(Occupied(b)) <= 1 THEN Occupied(b) \cup ProbeSquares
              ELSE Occupied(b)

\* the squares a caller picks a destination from
Targets(b) == IF Cardinality(Occupied(b)) <= 1 THEN Squares ELSE Arena

(***************************************************************************)
(* Squares from coordinates, text moves and the board factory.             *)
(***************************************************************************)
U8Max == 255
U8 == 0..U8Max
I32Max == 2147483647

SquareError == {"InvalidLength", "InvalidColumn", "InvalidRow", "OutOfBounds"}

\* Result<Square, SquareError>
SquareOk(s) == [err |-> "None", sq |-> s]
SquareErr(e) == [err |-> e, sq |-> NoSquare]

try_from_inclusive(r, c) ==
  IF r <= 8 /\ c <= 8 THEN SquareOk(r * 8 + c) ELSE SquareErr("OutOfBounds")

\* Square::try_from((row, col)) on two u8
try_from(r, c) ==
  IF r < 8 /\ c < 8 THEN SquareOk(r * 8 + c) ELSE SquareErr("OutOfBounds")

\* a + d on i32 leaves the type; a is a row or a column, never negative
add_overflows(a, d) == d > I32Max - a

\* Option<Square>, or the panic of an addition under overflow checks
OffsetRet(p, s) == [panic |-> p, sq |-> s]

\* Square::offset on the whole of i32: an addition that overflows panics
\* under overflow checks and wraps to a negative coordinate without them
offset_i32(s, d_row, d_col, oc) ==
  IF add_overflows(row(s), d_row) \/ add_overflows(col(s), d_col)
  THEN IF oc THEN OffsetRet(TRUE, NoSquare) ELSE OffsetRet(FALSE, NoSquare)
  ELSE OffsetRet(FALSE, offset(s, d_row, d_col))

\* the UTF-8 bytes of a text given as code points below 2048, str::as_bytes
RECURSIVE as_bytes(_)
as_bytes(input) ==
  IF input = <<>> THEN <<>>
  ELSE LET cp == Head(input)
       IN  (IF cp < 128 THEN <<cp>> ELSE <<192 + (cp \div 64), 128 + (cp % 64)>>)
           \o as_bytes(Tail(input))

\* str::is_char_boundary: the ends, and every byte that is no continuation
is_char_boundary(bytes, i) ==
  \/ i = 0
  \/ i = Len(bytes)
  \/ i < Len(bytes) /\ ~(bytes[i + 1] >= 128 /\ bytes[i + 1] < 192)

\* parse_position on the bytes of a cell: b'a'..b'h' and b'1'..b'8' leave
\* their upper end out
parse_position(bytes) ==
  IF Len(bytes) # 2 THEN SquareErr("InvalidLength")
  ELSE IF ~(bytes[1] >= 97 /\ bytes[1] < 104) THEN SquareErr("InvalidColumn")
  ELSE IF ~(bytes[2] >= 49 /\ bytes[2] < 56) THEN SquareErr("InvalidRow")
  ELSE try_from(bytes[2] - 49, bytes[1] - 97)

\* Result<ChessMove, SquareError>, or the panic of a slice inside a character
MoveOk(f, t) == [err |-> "None", from |-> f, to |-> t]
MoveErr(e) == [err |-> e, from |-> NoSquare, to |-> NoSquare]

\* parse_move on a text given as code points
parse_move(input) ==
  LET bytes == as_bytes(input)
  IN  IF Len(bytes) # 4 THEN MoveErr("InvalidLength")
      ELSE IF ~is_char_boundary(bytes, 2) THEN MoveErr("Panic")
      ELSE LET from == parse_position(SubSeq(bytes, 1, 2))
               to == parse_position(SubSeq(bytes, 3, 4))
           IN  IF from.err # "None" THEN MoveErr(from.err)
               ELSE IF to.err # "None" THEN MoveErr(to.err)
               ELSE MoveOk(from.sq, to.sq)

\* Display for ChessMove, as code points: 8 - row is one digit, 1 to 8
fmt(m) ==
  << col(m.from) + 97, 48 + (8 - row(m.from)),
     col(m.to) + 97, 48 + (8 - row(m.to)) >>

BoardPosition == {"Standard", "Empty"}

create_standard_position_legacy ==
  LET back == <<"Rook", "Knight", "Bishop", "Queen", "King", "Bishop", "Knight", "Rook">>
  IN  [r \in Rows |-> [c \in Rows |->
        CASE r = 0 -> Piece(back[c + 1], "White")
          [] r = 1 -> Piece("Pawn", "White")
          [] r = 6 -> Piece("Pawn", "Black")
          [] r = 7 -> Piece(back[c + 1], "Black")
          [] OTHER -> None]]

\* BoardFactory::create_standard_position
create_standard_position ==
  LET back == <<"Rook", "Knight", "Bishop", "Queen", "King", "Bishop", "Knight", "Rook">>
  IN  [r \in Rows |-> [c \in Rows |->
        CASE r = 0 -> Piece(back[c + 1], "Black")
          [] r = 1 -> Piece("Pawn", "Black")
          [] r = 6 -> Piece("Pawn", "White")
          [] r = 7 -> Piece(back[c + 1], "White")
          [] OTHER -> None]]

\* BoardFactory::create
create(position) ==
  IF position = "Empty" THEN EmptyBoard ELSE create_standard_position

\* the inputs of the calls above
MaxDelta == 8
Deltas == (-MaxDelta..MaxDelta) \cup {I32Max, -I32Max}
MaxLen == 5
\* a e h i, 0 1 2 8, and e with an acute accent, two bytes long
Alphabet == {97, 101, 104, 105, 48, 49, 50, 56, 233}
Texts == UNION {[1..n -> Alphabet] : n \in 0..MaxLen}

(***************************************************************************)
(* State.                                                                  *)
(***************************************************************************)
VARIABLES
  board,    \* the BoardGame the caller owns
  op,       \* the last call: "none", "is_valid_move" or "make_move"
  mv,       \* the ChessMove of the last call
  result,   \* its outcome
  steps,    \* the iterations its ray walk ran
  arg,      \* the argument of the last call of a Square, text or factory function
  ret,      \* its return value
  current_player,     \* ChessUi: the colour to move
  dragging_piece,     \* ChessUi: the cell of the piece being dragged, or NoSquare
  selected_position,  \* ChessUi: the highlighted cell, or NoSquare
  moves_made          \* ChessUi: the moves played so far

libvars == <<arg, ret>>
uivars == <<current_player, dragging_piece, selected_position, moves_made>>
vars == <<board, op, mv, result, steps, libvars, uivars>>

NoMove == [from |-> NoSquare, to |-> NoSquare]
NoArg == <<>>
NoRet == <<>>

\* no call made yet
NoCall ==
  /\ op = "none"
  /\ mv = NoMove
  /\ result = "none"
  /\ steps = 0
  /\ arg = NoArg
  /\ ret = NoRet

\* ChessUi::new, but for the board
UiNew ==
  /\ current_player = "White"
  /\ dragging_piece = NoSquare
  /\ selected_position = NoSquare
  /\ moves_made = 0

Init ==
  /\ board \in InitBoards
  /\ NoCall
  /\ UiNew

\* a call that panicked or hangs never returns to the caller
Running == result \notin Faults

\* the caller holds no move: the next call can be made
Idle == op = "none"

\* is_valid_move(&board, &ChessMove { from, to })
Validate(from, to) ==
  /\ Idle
  /\ \E oc \in BOOLEAN :
       LET v == is_valid_move(board, from, to, oc)
       IN  /\ result' = v.res
           /\ steps' = v.steps
  /\ op' = "is_valid_move"
  /\ mv' = [from |-> from, to |-> to]
  /\ UNCHANGED <<board, libvars, uivars>>

\* make_move(&mut board, &ChessMove { from, to })
MakeMove(from, to) ==
  /\ Idle
  /\ \E oc \in BOOLEAN :
       LET v == is_valid_move(board, from, to, oc)
       IN  /\ result' = v.res
           /\ steps' = v.steps
           /\ board' = make_move(board, from, to, v.res)
  /\ op' = "make_move"
  /\ mv' = [from |-> from, to |-> to]
  /\ UNCHANGED <<libvars, uivars>>

\* the caller has read the outcome and discards the move
Discard ==
  /\ ~Idle
  /\ Running
  /\ op' = "none"
  /\ mv' = NoMove
  /\ result' = "none"
  /\ steps' = 0
  /\ arg' = NoArg
  /\ ret' = NoRet
  /\ UNCHANGED <<board, uivars>>

Next ==
  \/ Idle /\ \E from \in Sources(board), to \in Targets(board) : Validate(from, to)
  \/ Idle /\ \E from \in Sources(board), to \in Targets(board) : MakeMove(from, to)
  \/ Discard

Spec == Init /\ [][Next]_vars

(***************************************************************************)
(* The calls of the Square, text and factory functions.                    *)
(***************************************************************************)
TryFrom(r, c) ==
  /\ Idle
  /\ op' = "try_from"
  /\ arg' = <<r, c>>
  /\ ret' = try_from(r, c)
  /\ UNCHANGED <<board, mv, result, steps, uivars>>

Offset(s, d_row, d_col) ==
  /\ Idle
  /\ \E oc \in BOOLEAN : ret' = offset_i32(s, d_row, d_col, oc)
  /\ op' = "offset"
  /\ arg' = <<s, d_row, d_col>>
  /\ UNCHANGED <<board, mv, result, steps, uivars>>

ParseMove(input) ==
  /\ Idle
  /\ op' = "parse_move"
  /\ arg' = input
  /\ ret' = parse_move(input)
  /\ UNCHANGED <<board, mv, result, steps, uivars>>

\* the board built replaces the caller's
Create(position) ==
  /\ Idle
  /\ op' = "create"
  /\ arg' = position
  /\ board' = create(position)
  /\ UNCHANGED <<mv, result, steps, ret, uivars>>

InitLib ==
  /\ board = EmptyBoard
  /\ NoCall
  /\ UiNew

NextLib ==
  \/ Idle /\ \E r \in U8, c \in U8 : TryFrom(r, c)
  \/ Idle /\ \E s \in Squares, d_row \in Deltas, d_col \in Deltas : Offset(s, d_row, d_col)
  \/ Idle /\ \E input \in Texts : ParseMove(input)
  \/ Idle /\ \E position \in BoardPosition : Create(position)
  \/ Discard

SpecLib == InitLib /\ [][NextLib]_vars

(***************************************************************************)
(* The event loop of the window, ChessUi.                                  *)
(***************************************************************************)
\* the moves played before the window is closed
MaxPly == 3

\* the cells the pointer visits
HoverCols == {2, 3, 4}
HoverCells == {s \in Squares : col(s) \in HoverCols}

may_drag_any(b, cell, player) == is_some(At(b, cell))

\* the cell holds a piece of the player to move
may_drag(b, cell, player) ==
  is_some(At(b, cell)) /\ At(b, cell).color = player

\* ChessUi::switch_player
switch_player(player) == IF player = "White" THEN "Black" ELSE "White"

\* one frame of draw_board with the pointer over hover (NoSquare: off the
\* board), the primary button held (down) or let go in this frame
\* (released). handle_move runs make_move; a call that panics or hangs ends
\* the program with the drag as it stood.
Frame(hover, down, released) ==
  /\ Running
  /\ moves_made < MaxPly
  /\ LET start == /\ hover # NoSquare
                  /\ down
                  /\ dragging_piece = NoSquare
                  /\ may_drag(board, hover, current_player)
         dragging == IF start THEN hover ELSE dragging_piece
         selected == IF start THEN hover ELSE selected_position
         drop == hover # NoSquare /\ released /\ dragging # NoSquare
     IN  IF drop /\ dragging # hover
         THEN \E oc \in BOOLEAN :
                LET v == is_valid_move(board, dragging, hover, oc)
                    died == v.res \in Faults
                IN  /\ result' = v.res
                    /\ steps' = v.steps
                    /\ mv' = [from |-> dragging, to |-> hover]
                    /\ board' = make_move(board, dragging, hover, v.res)
                    /\ current_player' = IF v.res = "Ok" THEN switch_player(current_player)
                                         ELSE current_player
                    /\ moves_made' = IF v.res = "Ok" THEN moves_made + 1 ELSE moves_made
                    /\ dragging_piece' = IF died THEN dragging ELSE NoSquare
                    /\ selected_position' = IF died THEN selected ELSE NoSquare
         ELSE /\ result' = "none"
              /\ steps' = 0
              /\ mv' = NoMove
              /\ dragging_piece' = IF drop THEN NoSquare ELSE dragging
              /\ selected_position' = IF drop THEN NoSquare ELSE selected
              /\ UNCHANGED <<board, current_player, moves_made>>
  /\ op' = "frame"
  /\ UNCHANGED libvars

InitGui ==
  /\ board = create("Standard")
  /\ NoCall
  /\ UiNew

NextGui ==
  \E hover \in HoverCells \cup {NoSquare}, down \in BOOLEAN, released \in BOOLEAN :
    Frame(hover, down, released)

SpecGui == InitGui /\ [][NextGui]_vars

TypeOK ==
  /\ board \in [Rows -> [Rows -> AllPieces \cup {None}]]
  /\ result \in MoveError \cup Faults \cup {"Ok", "none"}


(***************************************************************************)
(* Properties.                                                             *)
(***************************************************************************)
Returned == MoveError \cup {"Ok"}

\* the state after a call of is_valid_move: board is the board it was given
Validated == op = "is_valid_move"

\* the moving piece and the destination's occupant of a validated move
Mover == At(board, mv.from)
Dest == At(board, mv.to)

\* the general checks of is_valid_move pass
GeneralOk ==
  /\ Validated
  /\ is_some(Mover)
  /\ mv.from # mv.to
  /\ ~(is_some(Dest) /\ Dest.color = Mover.color)

\* C1: make_move is all-or-nothing: when the outcome is not Ok (the outcome
\* is one that is_valid_move gives for this board and move), every cell of
\* the board is the same after the call as before it.
C1_AllOrNothing ==
  [][(op' = "make_move" /\ result' # "Ok") =>
       /\ \A s \in Squares : At(board', s) = At(board, s)
       /\ \E oc \in BOOLEAN :
            is_valid_move(board, mv'.from, mv'.to, oc).res = result']_vars

\* a make_move that returned an error on a board holding the mover and
\* another piece
C1_Witness ==
  /\ op = "make_move"
  /\ result \in MoveError \ {"NoPieceAtSource", "SamePosition"}
  /\ Cardinality(Occupied(board)) = 2

\* C2: is_valid_move and make_move terminate: the ray walk never runs for
\* ever, and takes at most 7 steps.
C2_RayWalkTerminates == result # "Hang" /\ steps <= 7

\* C3: is_valid_move never faults: no unsigned subtraction underflows and no
\* board index is out of range.
C3_NeverPanics == result # "Panic"

\* C4: a successful make_move leaves the source vacant, the destination
\* holding the piece that was at the source, and the other 62 cells unchanged.
C4_ApplyEffect ==
  [][(op' = "make_move" /\ result' = "Ok") =>
       /\ At(board', mv'.from) = None
       /\ is_some(At(board, mv'.from))
       /\ At(board', mv'.to) = At(board, mv'.from)
       /\ \A s \in Squares \ {mv'.from, mv'.to} : At(board', s) = At(board, s)]_vars

\* a successful make_move that overwrote a piece: a Pawn that changed column
\* made a capture
C4_Witness ==
  /\ op = "make_move"
  /\ result = "Ok"
  /\ At(board, mv.to).piece_type = "Pawn"
  /\ col(mv.to) # col(mv.from)
  /\ At(board, mv.from) = None

\* C5: the three general checks are applied in order and the first failing
\* one decides: a vacant source gives NoPieceAtSource (also when source and
\* destination are equal), else equal squares give SamePosition, else a
\* destination of the mover's colour gives CaptureOwnPiece, whatever the
\* piece and the shape of the move; and these three come from nowhere else.
C5_GeneralChecksInOrder ==
  Validated =>
    /\ result = "NoPieceAtSource" <=> ~is_some(Mover)
    /\ result = "SamePosition" <=> (is_some(Mover) /\ mv.from = mv.to)
    /\ result = "CaptureOwnPiece" <=>
          /\ is_some(Mover)
          /\ mv.from # mv.to
          /\ is_some(Dest)
          /\ Dest.color = Mover.color

\* a Rook two or more squares away from a piece of its colour, with the
\* cell next to it vacant, is refused as CaptureOwnPiece
C5_Witness ==
  /\ Validated
  /\ result = "CaptureOwnPiece"
  /\ Mover.piece_type = "Rook"
  /\ col(mv.from) = col(mv.to)
  /\ abs(row(mv.to) - row(mv.from)) >= 2


\* the deltas of the validated move
RowDelta == row(mv.to) - row(mv.from)
ColDelta == col(mv.to) - col(mv.from)
Straight == (RowDelta = 0) # (ColDelta = 0)
Diagonal == abs(RowDelta) = abs(ColDelta)

\* the cells strictly between source and destination of a straight or
\* diagonal move
Between ==
  {s \in Squares :
     LET sr == row(s) - row(mv.from)
         sc == col(s) - col(mv.from)
     IN  /\ s # mv.from
         /\ s # mv.to
         /\ sr * ColDelta = sc * RowDelta
         /\ sr * RowDelta >= 0 /\ abs(sr) <= abs(RowDelta)
         /\ sc * ColDelta >= 0 /\ abs(sc) <= abs(ColDelta)}
PathClear == \A s \in Between : ~is_some(At(board, s))

\* C6: Rook rule: past the general checks, a Rook move is InvalidRookMove iff
\* both deltas are non-zero; otherwise PieceBlocking iff a cell strictly
\* between source and destination is occupied, at any distance; otherwise Ok.
C6_RookRule ==
  (GeneralOk /\ Mover.piece_type = "Rook") =>
    result = IF RowDelta # 0 /\ ColDelta # 0 THEN "InvalidRookMove"
             ELSE IF ~PathClear THEN "PieceBlocking"
             ELSE "Ok"

\* C7: Bishop rule: past the general checks, a Bishop move is
\* InvalidBishopMove iff the absolute deltas differ; otherwise PieceBlocking
\* iff a cell strictly between source and destination is occupied; otherwise
\* Ok.
C7_BishopRule ==
  (GeneralOk /\ Mover.piece_type = "Bishop") =>
    result = IF ~Diagonal THEN "InvalidBishopMove"
             ELSE IF ~PathClear THEN "PieceBlocking"
             ELSE "Ok"

\* C8: Queen rule: past the general checks, a Queen move that is neither
\* straight nor diagonal is InvalidQueenMove; a straight or diagonal one is
\* PieceBlocking when a cell strictly between source and destination is
\* occupied, and Ok otherwise, the destination vacant or not.
C8_QueenRule ==
  (GeneralOk /\ Mover.piece_type = "Queen") =>
    result = IF ~Straight /\ ~Diagonal THEN "InvalidQueenMove"
             ELSE IF ~PathClear THEN "PieceBlocking"
             ELSE "Ok"

\* a Queen stopped by a piece that is not next to it
C8_Witness ==
  /\ GeneralOk
  /\ Mover.piece_type = "Queen"
  /\ result = "PieceBlocking"
  /\ \E s \in Between : is_some(At(board, s)) /\ abs(row(s) - row(mv.from)) >= 2

\* the Pawn's direction and starting rank, and the shapes of its advances
Forward == IF Mover.color = "White" THEN -1 ELSE 1
StartRank == IF Mover.color = "White" THEN 6 ELSE 1
OneStep == ColDelta = 0 /\ RowDelta = Forward
TwoStep == ColDelta = 0 /\ RowDelta = 2 * Forward /\ row(mv.from) = StartRank
MidVacant == ~is_some(At(board, offset(mv.from, Forward, 0)))

\* C9: Pawn advance rule: a Pawn whose destination is vacant is accepted iff
\* the destination is one row ahead in its column, or two rows ahead from
\* the starting rank with the intermediate cell vacant; every other shape is
\* InvalidPawnMove.
C9_PawnAdvanceRule ==
  (GeneralOk /\ Mover.piece_type = "Pawn" /\ ~is_some(Dest)) =>
    /\ result = "Ok" <=> (OneStep \/ (TwoStep /\ MidVacant))
    /\ (~OneStep /\ ~TwoStep) => result = "InvalidPawnMove"

\* C10 as stated: a blocked Pawn advance of legal shape is PieceBlocking: a
\* two-step advance with the intermediate cell occupied, and a straight
\* advance onto an opposing piece.
C10_BlockedIsPieceBlocking ==
  (GeneralOk /\ Mover.piece_type = "Pawn") =>
    /\ (TwoStep /\ ~MidVacant) => result = "PieceBlocking"
    /\ ((OneStep \/ TwoStep) /\ is_some(Dest)) => result = "PieceBlocking"

\* C10 as amended: a blocked Pawn advance of legal shape is refused with the
\* Pawn's own error kinds: InvalidPawnMove for a two-step advance with the
\* intermediate cell occupied and the destination vacant, InvalidPawnCapture
\* for a straight advance onto an opposing piece; the one-step advance from
\* column 0 onto an opposing piece may panic instead (from.col() - 1).
C10_BlockedPawnOutcome ==
  (GeneralOk /\ Mover.piece_type = "Pawn") =>
    /\ (TwoStep /\ ~MidVacant /\ ~is_some(Dest)) => result = "InvalidPawnMove"
    /\ ((OneStep \/ TwoStep) /\ is_some(Dest)) =>
          \/ result = "InvalidPawnCapture"
          \/ result = "Panic" /\ OneStep /\ col(mv.from) = 0

\* a White Pawn on its starting rank, the cell ahead occupied, asked to
\* advance two rows
C10_Witness ==
  /\ GeneralOk
  /\ Mover = Piece("Pawn", "White")
  /\ TwoStep
  /\ ~MidVacant
  /\ ~is_some(Dest)
  /\ result = "InvalidPawnMove"

\* C11: Pawn capture rule: a Pawn whose destination holds an opposing piece
\* is accepted iff the destination is one row forward and one column to the
\* left or right, and is InvalidPawnCapture otherwise, on every file.
C11_PawnCaptureRule ==
  (GeneralOk /\ Mover.piece_type = "Pawn" /\ is_some(Dest)) =>
    result = IF RowDelta = Forward /\ abs(ColDelta) = 1 THEN "Ok"
             ELSE "InvalidPawnCapture"

\* C12: Knight rule: past the general checks, a Knight move is Ok iff the
\* absolute deltas are (1,2) or (2,1) and InvalidKnightMove otherwise,
\* whatever the other cells hold.
C12_KnightRule ==
  (GeneralOk /\ Mover.piece_type = "Knight") =>
    result = IF {abs(RowDelta), abs(ColDelta)} = {1, 2} THEN "Ok"
             ELSE "InvalidKnightMove"

\* a Knight accepted on a board where another piece stands on a cell next
\* to it, on the side it jumps to
C12_Witness ==
  /\ GeneralOk
  /\ Mover.piece_type = "Knight"
  /\ result = "Ok"
  /\ \E s \in Occupied(board) \ {mv.from, mv.to} :
       /\ abs(row(s) - row(mv.from)) <= 1
       /\ abs(col(s) - col(mv.from)) <= 1
       /\ (row(s) - row(mv.from)) * RowDelta >= 0
       /\ (col(s) - col(mv.from)) * ColDelta >= 0

\* C13: King rule: past the general checks, a King move is Ok iff both
\* absolute deltas are at most 1 and InvalidKingMove otherwise, whatever the
\* other cells hold.
C13_KingRule ==
  (GeneralOk /\ Mover.piece_type = "King") =>
    result = IF abs(RowDelta) <= 1 /\ abs(ColDelta) <= 1 THEN "Ok"
             ELSE "InvalidKingMove"

\* a King refused for a move of one row and two or more columns, on a board
\* holding another piece
C13_Witness ==
  /\ GeneralOk
  /\ Mover.piece_type = "King"
  /\ result = "InvalidKingMove"
  /\ abs(RowDelta) <= 1
  /\ abs(ColDelta) >= 2
  /\ Cardinality(Occupied(board)) = 2

\* the number of cells of b that hold piece p
PieceCount(b, p) == Cardinality({s \in Squares : At(b, s) = p})

\* C18: over any sequence of calls the pieces only ever disappear by
\* capture: the board changes only in a successful make_move, which removes
\* the destination's occupant, a piece of the other colour, when there is
\* one and nothing otherwise; every other piece is kept with its kind and
\* colour, so that the number of pieces never increases.
C18_PiecesOnlyCaptured ==
  [][board' # board =>
       /\ op' = "make_move"
       /\ result' = "Ok"
       /\ LET mover == At(board, mv'.from)
              captured == At(board, mv'.to)
          IN  /\ is_some(mover)
              /\ is_some(captured) => captured.color # mover.color
              /\ \A p \in AllPieces :
                   PieceCount(board', p) =
                     PieceCount(board, p) - (IF captured = p THEN 1 ELSE 0)]_vars

\* a Black Pawn alone on the board after a successful move that changed its
\* column: it has just captured the other piece
C18_Witness ==
  /\ op = "make_move"
  /\ result = "Ok"
  /\ At(board, mv.to) = Piece("Pawn", "Black")
  /\ col(mv.to) # col(mv.from)
  /\ Cardinality(Occupied(board)) = 1

\* C20: the legacy is_valid_move and the engine's give the same outcome for
\* every board and every move between squares in range.
C20_LegacyAgrees ==
  Validated =>
    \A oc \in BOOLEAN :
      is_valid_move(board, mv.from, mv.to, oc).res = result =>
        legacy_is_valid_move(board, Position(mv.from), Position(mv.to), oc).res = result

(***************************************************************************)
(* Squares, text moves and the factory.                                    *)
(***************************************************************************)
InGrid(a, d) == d >= -a /\ d <= 7 - a

\* C16: a square is built from (row, column) iff both are in 0..7 and the
\* construction fails with OutOfBounds otherwise; row() and col() of the
\* square built are the coordinates given, rebuilding from them gives an
\* equal square, and the encoded value is in 0..63.
C16_SquareConstruction ==
  op = "try_from" =>
    LET r == arg[1]
        c == arg[2]
    IN  /\ (ret.err = "None") <=> (r \in Rows /\ c \in Rows)
        /\ ret.err # "None" => ret = SquareErr("OutOfBounds")
        /\ ret.err = "None" =>
             /\ ret.sq \in Squares
             /\ row(ret.sq) = r
             /\ col(ret.sq) = c
             /\ try_from(row(ret.sq), col(ret.sq)) = ret

C16_Witness ==
  /\ op = "try_from"
  /\ arg = <<7, 7>>
  /\ ret = SquareOk(63)

\* C17: offset returns the square at (row + d_row, col + d_col) iff both
\* coordinates are in 0..7 and no result otherwise, without wrapping round
\* an edge, leaving 0..63 or failing.
C17_OffsetRule ==
  op = "offset" =>
    LET s == arg[1]
        d_row == arg[2]
        d_col == arg[3]
    IN  /\ ~ret.panic
        /\ (InGrid(row(s), d_row) /\ InGrid(col(s), d_col)) =>
             ret.sq = (row(s) + d_row) * 8 + (col(s) + d_col)
        /\ ~(InGrid(row(s), d_row) /\ InGrid(col(s), d_col)) =>
             ret.sq = NoSquare

\* the same for the steps that stay inside i32
C17_OffsetRuleNoOverflow ==
  (op = "offset" /\ arg[2] <= MaxDelta /\ arg[3] <= MaxDelta) => C17_OffsetRule

C17_EdgeReached ==
  /\ op = "offset"
  /\ arg = <<7, 0, 1>>
  /\ ret = OffsetRet(FALSE, NoSquare)

\* the cell a text names: column = file - 'a', row = 8 - rank
Files == 97..104
Ranks == 49..56
CellOf(file, rank) == (8 - (rank - 48)) * 8 + (file - 97)
WellFormed(input) ==
  /\ Len(input) = 4
  /\ input[1] \in Files /\ input[2] \in Ranks
  /\ input[3] \in Files /\ input[4] \in Ranks

\* C15: parse_move accepts exactly the texts of two cells with file a..h and
\* rank 1..8, reads a cell as column = file - 'a' and row = 8 - rank, and
\* Display of the parsed move is the text given; every other text is
\* rejected with an error.
C15_TextRoundTrip ==
  op = "parse_move" =>
    /\ ret.err # "Panic"
    /\ (ret.err = "None") <=> WellFormed(arg)
    /\ ret.err = "None" =>
         /\ ret.from = CellOf(arg[1], arg[2])
         /\ ret.to = CellOf(arg[3], arg[4])
         /\ fmt(ret) = arg

Moved == op' = "frame" /\ result' = "Ok"

\* a frame starts a drag only with no drag in progress and only on a cell
\* holding a piece of the player to move
C19_DragStart ==
  /\ (dragging_piece # NoSquare /\ dragging_piece' # NoSquare) =>
       dragging_piece' = dragging_piece
  /\ (dragging_piece = NoSquare /\ dragging_piece' # NoSquare) =>
       /\ is_some(At(board, dragging_piece'))
       /\ At(board, dragging_piece').color = current_player

\* the player to move changes exactly in a frame whose release made a
\* successful move, of a piece of the player to move, White on the odd moves
C19_Toggle ==
  /\ (current_player' # current_player) <=> Moved
  /\ Moved =>
       /\ mv'.from = dragging_piece \/ dragging_piece = NoSquare
       /\ At(board, mv'.from).color = current_player
       /\ current_player = (IF moves_made % 2 = 0 THEN "White" ELSE "Black")
       /\ board' = move_piece(board, mv'.from, mv'.to)
  /\ ~Moved => board' = board

\* C19: the window starts with White to move; a drag starts only on a cell
\* with a piece of the player to move and only when no drag is in progress;
\* the player to move toggles exactly when a release leads to a successful
\* make_move and is unchanged on a rejected move or a drop on the piece's own
\* square; so the colours of the pieces moved alternate White, Black, ...
C19_TurnsAlternate ==
  /\ current_player = "White"
  /\ [][C19_DragStart /\ C19_Toggle]_vars

\* Black has answered a White move and a rejected move left the turn alone
C19_Witness ==
  /\ op = "frame"
  /\ moves_made = 2
  /\ current_player = "White"
  /\ result \in MoveError

=============================================================================
